---- MODULE Spec2Model ----
(***************************************************************************)
(* A model of shaderc_acp's CompilationRun (src/src/lib.rs): the builder   *)
(* (new, with_dir, max_depth), the traversal and per-entry dispatch of     *)
(* run, the aggregated error list and its report, and the output file name *)
(* derivation shader_path_to_file_name.                                    *)
(*                                                                         *)
(* Strings are sequences of one-character strings, so that concatenation   *)
(* and the search for the last '.' are computed, not assumed.  A path is a *)
(* sequence of components as std::path::Path::components yields them.      *)
(***************************************************************************)
EXTENDS Integers, Sequences, FiniteSets, TLC

VARIABLES
    directories,   \* CompilationRun.directories: sequence of root paths
    max_depth,     \* CompilationRun.max_depth
    compilerOk,    \* environment: Compiler::new() returns Some
    fate,          \* environment: what happens to each shader file
    unreadable,    \* environment: directories whose read_dir fails
    outEnv,        \* environment: state of OUT_DIR
    status,        \* "none", "config", "running", "ok", "panicked"
    panicAt,       \* where the panic was raised ("" when none)
    reported,      \* the count in the final panic message
    dirIdx,        \* index of the root being walked
    pending,       \* entries the WalkDir iterator of that root still yields
    errors,        \* the local `errors` of run
    printed,       \* lines written to stderr
    spirvDir,      \* <OUT_DIR>/SPIR-V exists
    outFiles,      \* files under <OUT_DIR>/SPIR-V: set of [name, bytes, source]
    log,           \* history: classified files attempted in this run
    nYielded,      \* history: entries the traversal yielded in this run
    runNo,         \* which execution of the build step this is
    prevOut,       \* history: outFiles when the previous run ended
    pathA, pathB,  \* inputs of shader_path_to_file_name (NameSpec)
    nameA, nameB   \* its results (NameSpec)

vars == <<directories, max_depth, compilerOk, fate, unreadable, outEnv, status,
          panicAt, reported, dirIdx, pending, errors, printed, spirvDir,
          outFiles, log, nYielded, runNo, prevOut, pathA, pathB, nameA, nameB>>

envVars == <<compilerOk, fate, unreadable, outEnv>>
nameVars == <<pathA, pathB, nameA, nameB>>
cfgVars == <<directories, max_depth>>

---------------------------------------------------------------------------
(* Bounds of the model *)

MaxRoots == 2        \* longest `directories`
MaxDepthArg == 2     \* largest argument given to max_depth
MaxRuns == 2         \* executions of the build step
MaxComponents == 3   \* longest path given to shader_path_to_file_name
MaxOther == 2        \* longest second path it is compared with

\* Option values: None and Some(x) of an Option<string>; the None of an
\* Option<ShaderKind>; the absent path of an io::Error; a name not yet derived.
NoExt == <<>>
SomeExt(x) == <<x>>
NoKind == "None"
NoPath == <<>>
NoName == <<>>

---------------------------------------------------------------------------
(* Strings *)

RECURSIVE Concat(_)
Concat(ss) == IF ss = <<>> THEN <<>> ELSE Head(ss) \o Concat(Tail(ss))

sep2 == <<"_", "_">>
dotSpirv == <<".", "s", "p", "i", "r", "v">>

\* Bytes that are not valid UTF-8, and what to_string_lossy puts for them.
InvalidBytes == {"\\xFF", "\\xFE"}
ReplacementChar == "U+FFFD"

to_string_lossy(name) ==
    [i \in DOMAIN name |-> IF name[i] \in InvalidBytes THEN ReplacementChar ELSE name[i]]

---------------------------------------------------------------------------
(* Path components *)

Normal(name) == [kind |-> "Normal", name |-> name]
CurDir == [kind |-> "CurDir", name |-> <<".">>]
ParentDir == [kind |-> "ParentDir", name |-> <<".", ".">>]
RootDir == [kind |-> "RootDir", name |-> <<"/">>]

\* Path::components() of a path all of whose components are ordinary names.
Components(p) == [i \in DOMAIN p |-> Normal(p[i])]

---------------------------------------------------------------------------
(* shader_path_to_file_name *)

\* filter_map(Component::Normal(name) => Some(name)) then to_string_lossy
NormalNames(path) ==
    LET kept == SelectSeq(path, LAMBDA c : c.kind = "Normal")
    IN  [i \in DOMAIN kept |-> to_string_lossy(kept[i].name)]

\* The closure of iter::successors: every state after the first is 1.
SuccessorStepAlt(prev) == IF prev = 0 THEN 1 ELSE 0
SuccessorStep(prev) == 1

\* The first k items of iter::successors(Some(0), step).
RECURSIVE Successors(_)
Successors(k) ==
    IF k = 0 THEN <<>>
    ELSE IF k = 1 THEN <<0>>
    ELSE LET p == Successors(k - 1) IN Append(p, SuccessorStep(p[k - 1]))

ExtraOf(state) == IF state = 0 THEN <<>> ELSE sep2

shader_path_to_file_name(path) ==
    LET names == NormalNames(path)
        states == Successors(Len(names))
        zipped == [i \in DOMAIN names |-> <<names[i], ExtraOf(states[i])>>]
        pieces == [i \in DOMAIN zipped |-> zipped[i][2] \o zipped[i][1]]
    IN  Concat(pieces) \o dotSpirv

---------------------------------------------------------------------------
(* The source tree the run is executed in (relative to the working         *)
(* directory), listed in the order the traversal reads it (depth first).   *)

n_s == <<"s">>
n_a == <<"a">>
n_d == <<"d">>
n_hidden == <<".", "v", "e", "r", "t">>
n_makefile == <<"M", "a", "k", "e", "f", "i", "l", "e">>
n_b_vert == <<"b", ".", "v", "e", "r", "t">>
n_notes_txt == <<"n", "o", "t", "e", "s", ".", "t", "x", "t">>
n_flat_vert == <<"a", "_", "_", "d", "_", "_", "b", ".", "v", "e", "r", "t">>
n_ok_frag == <<"o", "k", ".", "f", "r", "a", "g">>
n_missing == <<"m", "i", "s", "s", "i", "n", "g">>

Tree ==
    << [path |-> <<n_s>>, isDir |-> TRUE],
       [path |-> <<n_s, n_a>>, isDir |-> TRUE],
       [path |-> <<n_s, n_a, n_hidden>>, isDir |-> FALSE],
       [path |-> <<n_s, n_a, n_makefile>>, isDir |-> FALSE],
       [path |-> <<n_s, n_a, n_d>>, isDir |-> TRUE],
       [path |-> <<n_s, n_a, n_d, n_b_vert>>, isDir |-> FALSE],
       [path |-> <<n_s, n_a, n_notes_txt>>, isDir |-> FALSE],
       [path |-> <<n_s, n_flat_vert>>, isDir |-> FALSE],
       [path |-> <<n_s, n_ok_frag>>, isDir |-> FALSE] >>

\* The shader sources of the tree, and the directory that may be unreadable.
ShaderFiles == { <<n_s, n_flat_vert>>, <<n_s, n_a, n_d, n_b_vert>>, <<n_s, n_ok_frag>> }
DeepDir == <<n_s, n_a, n_d>>

\* Paths a caller may configure as roots: two nested directories, a path
\* that does not exist, and a regular file with a shader extension.
RootChoices == { <<n_s>>, <<n_s, n_a>>, <<n_missing>>, <<n_s, n_flat_vert>> }

\* What may happen to a shader file: it compiles and is written, it cannot be
\* read, the compiler rejects it, its output file cannot be opened
\* ("nowrite": fs::write fails in File::create and touches nothing), or its
\* output is created and write_all fails: on its first write, leaving the file
\* empty ("nowrite_data"), or after part of the data, leaving a prefix of the
\* artifact ("nowrite_part").  The environments explored give every kind of
\* failure to some file.
Fates == {"ok", "noread", "nocompile", "nowrite", "nowrite_data", "nowrite_part"}
FateChoices(p) ==
    IF p = <<n_s, n_flat_vert>> THEN Fates
    ELSE IF p = <<n_s, n_ok_frag>> THEN {"ok", "nowrite_data", "nowrite_part"}
    ELSE {"ok", "nocompile"}
OutEnvs == {"fresh", "nocreate", "unset"}

IsPrefix(p, q) == Len(p) <= Len(q) /\ SubSeq(q, 1, Len(p)) = p
PathExists(p) == \E i \in DOMAIN Tree : Tree[i].path = p
\* entry.path().is_dir()
is_dir(p) == \E i \in DOMAIN Tree : Tree[i].path = p /\ Tree[i].isDir

---------------------------------------------------------------------------
(* WalkDir::new(dir).min_depth(1).max_depth(n) *)

\* A new WalkDir has min_depth 0 and max_depth usize::MAX.  No depth of the
\* model comes near usize::MAX, so the default maximum is kept as the flag
\* `unlimited` (every depth is below it) instead of a number.
WalkDirNew(root) == [root |-> root, min_depth |-> 0, max_depth |-> 0, unlimited |-> TRUE]

WalkMinDepthZero(w, depth) == [w EXCEPT !.min_depth = 0]
WalkMinDepth(w, depth) ==
    [w EXCEPT !.min_depth = IF ~w.unlimited /\ depth > w.max_depth
                            THEN w.max_depth ELSE depth]

WalkMaxDepthOneMore(w, depth) ==
    [w EXCEPT !.max_depth = IF depth + 1 < w.min_depth THEN w.min_depth ELSE depth + 1,
              !.unlimited = FALSE]
WalkMaxDepth(w, depth) ==
    [w EXCEPT !.max_depth = IF depth < w.min_depth THEN w.min_depth ELSE depth,
              !.unlimited = FALSE]

EntryOk(p) == [ok |-> TRUE, path |-> p]
EntryErr(p) == [ok |-> FALSE, path |-> p]

\* What the iterator yields for one node of the tree below (or at) the root.
NodeItems(w, node, unread) ==
    LET depth == Len(node.path) - Len(w.root)
        cut == \E u \in unread : IsPrefix(w.root, u) /\ IsPrefix(u, node.path)
                                 /\ u # node.path
        own == IF depth >= w.min_depth /\ (w.unlimited \/ depth <= w.max_depth)
               THEN <<EntryOk(node.path)>> ELSE <<>>
        opened == IF node.isDir /\ node.path \in unread
                     /\ (w.unlimited \/ depth + 1 <= w.max_depth)
                  THEN <<EntryErr(node.path)>> ELSE <<>>
    IN  IF ~IsPrefix(w.root, node.path) \/ cut THEN <<>> ELSE own \o opened

\* All items of the iteration, in order.
WalkItems(w, unread) ==
    IF ~PathExists(w.root) THEN <<EntryErr(w.root)>>
    ELSE Concat([i \in DOMAIN Tree |-> NodeItems(w, Tree[i], unread)])

---------------------------------------------------------------------------
(* Extension and the stage-kind table *)

LastDot(name) ==
    LET dots == {i \in DOMAIN name : name[i] = "."}
    IN  IF dots = {} THEN 0 ELSE CHOOSE i \in dots : \A j \in dots : j <= i

\* Path::extension(): None without a '.', and None when the only '.' leads.
extension(p) ==
    LET name == p[Len(p)]
        i == LastDot(name)
    IN  IF i <= 1 THEN NoExt ELSE SomeExt(to_string_lossy(SubSeq(name, i + 1, Len(name))))

KindTable ==
    { << <<"v","e","r","t">>, "Vertex" >>,
      << <<"v","s">>, "Vertex" >>,
      << <<"f","r","a","g">>, "Fragment" >>,
      << <<"f","s">>, "Fragment" >>,
      << <<"g","s">>, "Geometry" >>,
      << <<"g","e","o","m">>, "Geometry" >>,
      << <<"c","o","m","p">>, "Compute" >>,
      << <<"t","e","s","c">>, "TessControl" >>,
      << <<"t","e","s","e">>, "TessEvaluation" >>,
      << <<"r","g","e","n">>, "RayGeneration" >>,
      << <<"r","i","n","t">>, "Intersection" >>,
      << <<"r","a","h","i","t">>, "AnyHit" >>,
      << <<"r","c","h","i","t">>, "ClosestHit" >>,
      << <<"r","m","i","s","s">>, "Miss" >>,
      << <<"r","c","a","l","l">>, "Callable" >>,
      << <<"m","e","s","h">>, "Mesh" >>,
      << <<"t","a","s","k">>, "Task" >>,
      << <<"g","l","s","l">>, "InferFromSource" >> }

\* The match on file_ext: Some(kind) or None.
ShaderKindOfLoose(ext) ==
    IF \E r \in KindTable : r[1] = ext
    THEN (CHOOSE r \in KindTable : r[1] = ext)[2]
    ELSE "InferFromSource"
ShaderKindOf(ext) ==
    IF \E r \in KindTable : r[1] = ext
    THEN (CHOOSE r \in KindTable : r[1] = ext)[2]
    ELSE NoKind

---------------------------------------------------------------------------
(* The steps of run on one entry *)

\* From<std::io::Error>: the record keeps the cause and no path.
IoError(cause) == [kind |-> "Io", path |-> NoPath, error |-> cause]
\* From<ShaderCompileFail>: the record keeps the path and the diagnostic.
CompileFailError(p) == [kind |-> "CompileFail", path |-> p, error |-> "shaderc::Error"]

\* errors.push(..)
PushFront(errs, e) == <<e>> \o errs
Push(errs, e) == Append(errs, e)

\* What the environment does to the file at path p.
FateOf(f, p) == IF p \in DOMAIN f THEN f[p] ELSE "ok"

\* compile_into_spirv is deterministic: the artifact is a function of the
\* source file and the stage kind.
\* `part` says how much of it a file holds: "all", a proper non-empty
\* "prefix", or "none".
Artifact(p, kind) == [source |-> p, kind |-> kind, part |-> "all"]

\* fs::create_dir(<OUT_DIR>/SPIR-V)
create_dir(exists, env) ==
    IF exists THEN "AlreadyExists"
    ELSE IF env = "nocreate" THEN "NotFound"
    ELSE "Ok"

\* The match on create_dir's result: which results let the file go on.
CreateDirPasses(res) == res \in {"Ok", "AlreadyExists"}

\* The contents of a file of zero bytes.
EmptyBytes == [source |-> NoPath, kind |-> NoKind, part |-> "none"]

\* What write_all leaves in the file when it fails after part of the data.
PrefixOf(bytes) == [bytes EXCEPT !.part = "prefix"]

\* File::create(path): the file is created, or truncated when it exists.
\* `source` is history: the shader file the write was made for.
CreateFile(files, name, src) ==
    {f \in files : f.name # name}
        \cup {[name |-> name, bytes |-> EmptyBytes, source |-> src]}

\* write_all(bytes) on the file just created: the file holds what was
\* written when it returned.
WriteAll(files, name, bytes, how) ==
    LET left == IF how = "nowrite_data" THEN EmptyBytes
                ELSE IF how = "nowrite_part" THEN PrefixOf(bytes)
                ELSE bytes
    IN  {IF f.name = name THEN [f EXCEPT !.bytes = left] ELSE f : f \in files}

\* fs::write(path, bytes) is File::create(path) then write_all(bytes): a
\* failure of the first leaves the directory as it was, a failure of the
\* second leaves the created or truncated file with what had been written.
WriteFile(files, name, bytes, src, how) ==
    IF how = "nowrite" THEN files
    ELSE WriteAll(CreateFile(files, name, src), name, bytes, how)

\* How the loop body ends for entry e.
Outcome(e, f, env, exists) ==
    IF ~e.ok THEN "unwrap_panic"
    ELSE IF is_dir(e.path) THEN "skip"
    ELSE IF extension(e.path) = NoExt THEN "skip"
    ELSE IF ShaderKindOf(extension(e.path)[1]) = NoKind THEN "skip"
    ELSE IF FateOf(f, e.path) = "noread" THEN "read"
    ELSE IF FateOf(f, e.path) = "nocompile" THEN "compile"
    ELSE IF env = "unset" THEN "out_dir_panic"
    ELSE IF ~CreateDirPasses(create_dir(exists, env)) THEN "create_dir"
    ELSE IF FateOf(f, e.path) = "nowrite" THEN "write"
    ELSE IF FateOf(f, e.path) = "nowrite_data" THEN "write_data"
    ELSE IF FateOf(f, e.path) = "nowrite_part" THEN "write_part"
    ELSE "ok"

\* The record pushed for an outcome that is a failure of the file.
ErrorFor(out, p) ==
    IF out = "compile" THEN CompileFailError(p) ELSE IoError(out)

FileFailures == {"read", "compile", "create_dir", "write", "write_data", "write_part"}

\* The lines printed for the collected errors.
DiagnosticsCompileOnly(errs) ==
    LET ce == SelectSeq(errs, LAMBDA e : e.kind = "CompileFail")
    IN  [i \in DOMAIN ce |-> <<"Error compiling shader at", ce[i].path, ce[i].error>>]
Diagnostics(errs) ==
    [i \in DOMAIN errs |->
        IF errs[i].kind = "Io"
        THEN <<"IO error:", errs[i].error>>
        ELSE <<"Error compiling shader at", errs[i].path, errs[i].error>>]

\* The iterator run builds for a root.
WalkOf(dir, depth) == WalkMaxDepth(WalkMinDepth(WalkDirNew(dir), 1), depth)

---------------------------------------------------------------------------
(* Initial state and actions *)

Idle ==
    /\ panicAt = ""
    /\ reported = 0
    /\ dirIdx = 0
    /\ pending = <<>>
    /\ errors = <<>>
    /\ printed = <<>>
    /\ spirvDir = FALSE
    /\ outFiles = {}
    /\ log = <<>>
    /\ nYielded = 0
    /\ runNo = 0
    /\ prevOut = {}

Init ==
    /\ directories = <<>>
    /\ max_depth = 0
    /\ status = "none"
    /\ compilerOk \in BOOLEAN
    /\ fate \in {f \in [ShaderFiles -> Fates] : \A p \in ShaderFiles : f[p] \in FateChoices(p)}
    /\ unreadable \in {{}, {DeepDir}}
    /\ outEnv \in OutEnvs
    /\ Idle
    /\ pathA = <<>> /\ pathB = <<>> /\ nameA = NoName /\ nameB = NoName

runVars == <<status, panicAt, reported, dirIdx, pending, errors, printed,
             spirvDir, outFiles, log, nYielded, runNo, prevOut>>

\* CompilationRun::new(dir)
New(dir) ==
    /\ status = "none"
    /\ directories' = <<dir>>
    /\ max_depth' = 0
    /\ status' = "config"
    /\ UNCHANGED <<panicAt, reported, dirIdx, pending, errors, printed, spirvDir,
                   outFiles, log, nYielded, runNo, prevOut>>
    /\ UNCHANGED <<envVars, nameVars>>

\* with_dir(dir)
WithDir(dir) ==
    /\ status = "config"
    /\ Len(directories) < MaxRoots
    /\ directories' = Append(directories, dir)
    /\ UNCHANGED <<max_depth, runVars, envVars, nameVars>>

\* max_depth(depth)
SetMaxDepth(depth) ==
    /\ status = "config"
    /\ max_depth' = depth
    /\ UNCHANGED <<directories, runVars, envVars, nameVars>>

\* run, up to the first root's iterator: Compiler::new().expect(..) panics
\* when the compiler cannot be initialised.
RunStart ==
    /\ status = "config"
    /\ IF compilerOk
       THEN /\ status' = "running"
            /\ panicAt' = ""
            /\ dirIdx' = 1
            /\ pending' = WalkItems(WalkOf(directories[1], max_depth), unreadable)
            /\ runNo' = 1
       ELSE /\ status' = "panicked"
            /\ panicAt' = "compiler_init"
            /\ UNCHANGED <<dirIdx, pending, runNo>>
    /\ errors' = <<>>
    /\ UNCHANGED <<reported, printed, spirvDir, outFiles, log, nYielded, prevOut>>
    /\ UNCHANGED <<cfgVars, envVars, nameVars>>

\* One iteration of the inner loop.
ProcessEntry ==
    /\ status = "running"
    /\ pending # <<>>
    /\ LET e == Head(pending)
           out == Outcome(e, fate, outEnv, spirvDir)
           kind == ShaderKindOf(extension(e.path)[1])
       IN  /\ pending' = Tail(pending)
           /\ nYielded' = nYielded + 1
           /\ status' = IF out \in {"unwrap_panic", "out_dir_panic"}
                        THEN "panicked" ELSE "running"
           /\ panicAt' = IF out \in {"unwrap_panic", "out_dir_panic"} THEN out ELSE ""
           /\ errors' = IF out \in FileFailures
                        THEN Push(errors, ErrorFor(out, e.path)) ELSE errors
           /\ spirvDir' = (spirvDir \/ (out \in {"write", "write_data", "write_part", "ok"}))
           /\ outFiles' = IF out \in {"write", "write_data", "write_part", "ok"}
                          THEN WriteFile(outFiles,
                                         shader_path_to_file_name(Components(e.path)),
                                         Artifact(e.path, kind),
                                         e.path,
                                         FateOf(fate, e.path))
                          ELSE outFiles
           /\ log' = IF out \in {"unwrap_panic", "skip"} THEN log
                     ELSE Append(log, [root |-> dirIdx, path |-> e.path, result |-> out])
    /\ UNCHANGED <<reported, dirIdx, printed, runNo, prevOut>>
    /\ UNCHANGED <<cfgVars, envVars, nameVars>>

\* The outer loop moves to the next root.
NextRoot ==
    /\ status = "running"
    /\ pending = <<>>
    /\ dirIdx < Len(directories)
    /\ dirIdx' = dirIdx + 1
    /\ pending' = WalkItems(WalkOf(directories[dirIdx + 1], max_depth), unreadable)
    /\ UNCHANGED <<status, panicAt, reported, errors, printed, spirvDir, outFiles,
                   log, nYielded, runNo, prevOut>>
    /\ UNCHANGED <<cfgVars, envVars, nameVars>>

\* After the loops: print every error and panic with their number, or return.
Report ==
    /\ status = "running"
    /\ pending = <<>>
    /\ dirIdx = Len(directories)
    /\ IF errors # <<>>
       THEN /\ printed' = Diagnostics(errors)
            /\ status' = "panicked"
            /\ panicAt' = "report"
            /\ reported' = Len(errors)
       ELSE /\ status' = "ok"
            /\ UNCHANGED <<printed, panicAt, reported>>
    /\ UNCHANGED <<dirIdx, pending, errors, spirvDir, outFiles, log, nYielded,
                   runNo, prevOut>>
    /\ UNCHANGED <<cfgVars, envVars, nameVars>>

\* The build step is executed again with the same configuration on the same
\* tree, after a run that returned normally.
Rerun ==
    /\ status = "ok"
    /\ runNo < MaxRuns
    /\ status' = "running"
    /\ runNo' = runNo + 1
    /\ prevOut' = outFiles
    /\ errors' = <<>>
    /\ log' = <<>>
    /\ nYielded' = 0
    /\ dirIdx' = 1
    /\ pending' = WalkItems(WalkOf(directories[1], max_depth), unreadable)
    /\ UNCHANGED <<panicAt, reported, printed, spirvDir, outFiles>>
    /\ UNCHANGED <<cfgVars, envVars, nameVars>>

Next ==
    \/ \E dir \in RootChoices : New(dir)
    \/ \E dir \in RootChoices : WithDir(dir)
    \/ \E depth \in 0..MaxDepthArg : SetMaxDepth(depth)
    \/ RunStart
    \/ ProcessEntry
    \/ NextRoot
    \/ Report
    \/ Rerun

Spec == Init /\ [][Next]_vars

---------------------------------------------------------------------------
(* shader_path_to_file_name applied to arbitrary paths *)

n_b == <<"b">>
n_a__b == <<"a", "_", "_", "b">>
n_bad == <<"a", "\\xFF">>

ComponentChoices ==
    {Normal(n_a), Normal(n_b), Normal(n_a__b), Normal(n_bad), CurDir, ParentDir, RootDir}

\* components() yields RootDir and CurDir only at the front of a path.
WellFormed(p) == \A i \in DOMAIN p : i > 1 => p[i].kind \notin {"RootDir", "CurDir"}

PathInputs ==
    {p \in UNION {[1..n -> ComponentChoices] : n \in 0..MaxComponents} : WellFormed(p)}

\* Relative paths below a root: ordinary names only.
RelativeInputs ==
    UNION {[1..n -> {Normal(n_a), Normal(n_b), Normal(n_a__b)}] : n \in 1..MaxOther}

NameInit ==
    /\ directories = <<>>
    /\ max_depth = 0
    /\ status = "none"
    /\ compilerOk = TRUE
    /\ fate = [p \in ShaderFiles |-> "ok"]
    /\ unreadable = {}
    /\ outEnv = "fresh"
    /\ Idle
    /\ pathA \in PathInputs
    /\ pathB \in RelativeInputs
    /\ nameA = NoName
    /\ nameB = NoName

Derive ==
    /\ nameA = NoName
    /\ nameA' = shader_path_to_file_name(pathA)
    /\ nameB' = shader_path_to_file_name(pathB)
    /\ UNCHANGED <<pathA, pathB, cfgVars, envVars, runVars>>

NameNext == Derive

NameSpec == NameInit /\ [][NameNext]_vars

---------------------------------------------------------------------------
(* Properties *)

\* What is on disk under <OUT_DIR>/SPIR-V: names and contents.
OnDisk(files) == {[name |-> f.name, bytes |-> f.bytes] : f \in files}

\* The run reached its end: it returned, or it panicked in the final report.
AtEnd == status = "ok" \/ (status = "panicked" /\ panicAt = "report")

\* Depth of a logged file below the root whose traversal yielded it.
DepthOf(r) == Len(r.path) - Len(directories[r.root])

Max2(a, b) == IF a > b THEN a ELSE b

\* C1: nothing is raised mid-run: whatever the roots and the failures, a
\* panic of run comes only from the final report, after every entry of
\* every root has been attempted.  (A compiler that cannot be constructed
\* panics before the traversal starts and is left aside.)
C1_NothingRaisedMidRun ==
    (status = "panicked" /\ panicAt # "compiler_init") =>
        (panicAt = "report" /\ pending = <<>> /\ dirIdx = Len(directories))

\* C2: at the end of run, the run panics iff the error list is non-empty;
\* then one line is printed per record, in order and of the record's kind,
\* and the count in the panic message is the length of the list; with an
\* empty list the run returns and nothing is printed.  Nothing is printed
\* before the end.
C2_ReportMatchesErrors ==
    /\ status = "ok" => (errors = <<>> /\ printed = <<>>)
    /\ (status = "panicked" /\ panicAt = "report") =>
          /\ errors # <<>>
          /\ reported = Len(errors)
          /\ Len(printed) = Len(errors)
          /\ \A i \in DOMAIN errors :
                /\ i \in DOMAIN printed
                /\ printed[i][1] = (IF errors[i].kind = "Io" THEN "IO error:"
                                    ELSE "Error compiling shader at")
                /\ errors[i].kind = "CompileFail" => printed[i][2] = errors[i].path
    /\ status = "running" => printed = <<>>

C2_Witness ==
    /\ status = "panicked" /\ panicAt = "report"
    /\ Len(errors) = 3 /\ reported = 3 /\ Len(printed) = 3
    /\ \E i, j \in DOMAIN errors : errors[i].kind = "Io" /\ errors[j].kind = "CompileFail"

\* The records the failed files of a log call for, in the log's order.
ExpectedErrors(l) ==
    LET failed == SelectSeq(l, LAMBDA r : r.result \in
                            {"read", "compile", "create_dir", "write", "write_data",
                             "write_part"})
    IN  [i \in DOMAIN failed |->
            IF failed[i].result = "compile"
            THEN [kind |-> "CompileFail", path |-> failed[i].path, error |-> "shaderc::Error"]
            ELSE [kind |-> "Io", path |-> NoPath, error |-> failed[i].result]]

\* The result logged for a file is the one its environment forces.
C3_LogFaithful ==
    \A i \in DOMAIN log :
        LET r == log[i]
            f == FateOf(fate, r.path)
        IN  /\ (r.result = "read") <=> (f = "noread")
            /\ (r.result = "compile") <=> (f = "nocompile")
            /\ (r.result = "write") => (f = "nowrite" /\ outEnv # "unset")
            /\ (r.result = "write_data") => (f = "nowrite_data" /\ outEnv # "unset")
            /\ (r.result = "write_part") => (f = "nowrite_part" /\ outEnv # "unset")
            /\ (r.result = "create_dir") =>
                   (outEnv = "nocreate"
                    /\ f \in {"ok", "nowrite", "nowrite_data", "nowrite_part"})
            /\ (r.result = "ok") => (f = "ok" /\ outEnv = "fresh")
            /\ (r.result = "out_dir_panic") => (outEnv = "unset")

C3_State ==
    /\ status \in {"none", "config"} => errors = <<>>
    /\ C3_LogFaithful
    /\ errors = ExpectedErrors(log)

C3_Step ==
    \/ errors' = errors
    \/ /\ Len(errors') = Len(errors) + 1
       /\ SubSeq(errors', 1, Len(errors)) = errors
    \/ /\ runNo' # runNo
       /\ errors' = <<>>

\* C3: at every point of run the error list holds exactly one record for
\* every classified file that failed so far, of the matching kind (a compile
\* failure for a rejected source, an I/O failure for a failed read, create
\* or write), none for the files that did not fail, in the order the files
\* were visited across roots; it starts empty and is only appended to
\* within a run.
C3_ErrorsReflectFailures == [](C3_State) /\ [][C3_Step]_vars

C3_Witness ==
    /\ Len(log) = 3
    /\ Len(errors) = 2
    /\ errors[1].kind = "Io" /\ errors[2].kind = "CompileFail"
    /\ \E i \in DOMAIN log : log[i].result = "ok"

\* C4: after a first run into an empty output directory, the number of
\* files under <OUT_DIR>/SPIR-V equals the number of classified files
\* that did not fail.
C4_OutputCountMatches ==
    (AtEnd /\ runNo = 1) =>
        Cardinality(outFiles) =
            Cardinality({log[i].path : i \in {j \in DOMAIN log : log[j].result = "ok"}})

\* Relative paths of ordinary names.
IsRelative(p) == p # <<>> /\ \A i \in DOMAIN p : p[i].kind = "Normal"

\* C5: distinct relative paths (ordinary names, which may contain "__")
\* have distinct derived file names.
C5_Injective ==
    (nameA # NoName /\ IsRelative(pathA) /\ IsRelative(pathB) /\ pathA # pathB) =>
        nameA # nameB

\* The reference join: the kept names, "__" before each but the first,
\* then ".spirv".
RECURSIVE RefJoinFrom(_, _)
RefJoinFrom(names, i) ==
    IF i > Len(names) THEN <<>>
    ELSE (IF i > 1 THEN <<"_", "_">> ELSE <<>>) \o names[i] \o RefJoinFrom(names, i + 1)

RefName(path) ==
    LET kept == SelectSeq(path, LAMBDA c : c.kind \notin {"RootDir", "CurDir", "ParentDir", "Prefix"})
    IN  RefJoinFrom([i \in DOMAIN kept |-> to_string_lossy(kept[i].name)], 1)
            \o <<".", "s", "p", "i", "r", "v">>

ExamplePath ==
    << Normal(<<"s","h","a","d","e","r","s">>), Normal(<<"p","o","s","t">>),
       Normal(<<"b","l","u","r",".","c","o","m","p">>) >>
ExampleName ==
    <<"s","h","a","d","e","r","s","_","_","p","o","s","t","_","_",
      "b","l","u","r",".","c","o","m","p",".","s","p","i","r","v">>

\* C6: for every path the derived name is the reference index-based join of
\* its normal components followed by ".spirv", it holds no path separator,
\* and shaders/post/blur.comp gives shaders__post__blur.comp.spirv.
C6_MatchesIndexJoin ==
    nameA # NoName =>
        /\ nameA = RefName(pathA)
        /\ nameB = RefName(pathB)
        /\ \A i \in DOMAIN nameA : nameA[i] # "/"
        /\ shader_path_to_file_name(ExamplePath) = ExampleName

C6_Witness ==
    /\ nameA # NoName
    /\ Len(pathA) = 3
    /\ pathA[1].kind = "ParentDir"
    /\ pathA[2] = Normal(n_a__b) /\ pathA[3] = Normal(n_b)
    /\ nameA = <<"a", "_", "_", "b", "_", "_", "b", ".", "s", "p", "i", "r", "v">>

\* C7: whatever the depth (the default 0 included), the traversal of a root
\* never yields the root's own entry: every entry yielded lies at depth 1 or
\* more, and the root itself is never read, compiled or written, also when
\* it is a regular file with a shader extension.
C7_RootEntryExcluded ==
    /\ \A i \in DOMAIN log : log[i].path # directories[log[i].root] /\ DepthOf(log[i]) >= 1
    /\ \A i \in DOMAIN pending :
          pending[i].ok => Len(pending[i].path) > Len(directories[dirIdx])
    /\ \A f \in outFiles :
          \E i \in DOMAIN directories :
              IsPrefix(directories[i], f.source) /\ directories[i] # f.source

C7_Witness ==
    /\ status = "ok"
    /\ runNo = 1
    /\ directories = << <<n_s, n_flat_vert>> >>
    /\ max_depth = 0
    /\ fate[<<n_s, n_flat_vert>>] = "nocompile"
    /\ log = <<>> /\ errors = <<>> /\ outFiles = {}

\* C8 as stated: a file more than max_depth levels below its root is never
\* visited in that root's traversal.
C8_NeverBeyondMaxDepth ==
    \A i \in DOMAIN log : DepthOf(log[i]) <= max_depth

\* A shader file is within reach of a root: at most max(n, 1) levels below it.
Reachable(f, root) ==
    /\ IsPrefix(root, f)
    /\ Len(f) - Len(root) >= 1
    /\ Len(f) - Len(root) <= Max2(max_depth, 1)

\* C8, amended: a file more than max(n, 1) levels below its root (the root's
\* direct children being at level 1) is never visited in that root's
\* traversal; a file out of reach of every configured root is not read, not
\* compiled, has no output file and no failure record.
C8_NeverBeyondEffectiveDepth ==
    /\ \A i \in DOMAIN log : DepthOf(log[i]) <= Max2(max_depth, 1)
    /\ \A f \in ShaderFiles :
          (\A i \in DOMAIN directories : ~Reachable(f, directories[i])) =>
              /\ \A i \in DOMAIN log : log[i].path # f
              /\ \A i \in DOMAIN errors : errors[i].path # f
              /\ \A o \in outFiles : o.source # f

C8_Witness ==
    /\ status = "ok"
    /\ runNo = 1
    /\ directories = << <<n_s, n_a>> >>
    /\ max_depth = 1
    /\ unreadable = {}
    /\ fate[<<n_s, n_a, n_d, n_b_vert>>] = "nocompile"
    /\ nYielded = 4
    /\ log = <<>> /\ outFiles = {}

\* The 18 extensions of the table.
TableExtensions ==
    { <<"v","e","r","t">>, <<"v","s">>, <<"f","r","a","g">>, <<"f","s">>, <<"g","s">>,
      <<"g","e","o","m">>, <<"c","o","m","p">>, <<"t","e","s","c">>, <<"t","e","s","e">>,
      <<"r","g","e","n">>, <<"r","i","n","t">>, <<"r","a","h","i","t">>,
      <<"r","c","h","i","t">>, <<"r","m","i","s","s">>, <<"r","c","a","l","l">>,
      <<"m","e","s","h">>, <<"t","a","s","k">>, <<"g","l","s","l">> }

\* The file at p is a regular file whose name ends in '.' and a table
\* extension, with something before that '.'.
IsShaderPath(p) ==
    /\ \E i \in DOMAIN Tree : Tree[i].path = p /\ ~Tree[i].isDir
    /\ \E x \in TableExtensions :
          LET name == p[Len(p)]
          IN  /\ Len(name) > Len(x) + 1
              /\ SubSeq(name, Len(name) - Len(x) + 1, Len(name)) = x
              /\ name[Len(name) - Len(x)] = "."

\* C9: directories, files without an extension and files whose extension is
\* not in the table are never read or compiled, have no output file and no
\* failure record; a run that met no shader file returns normally with no
\* output file, no error and nothing printed.
C9_NonShadersSkipped ==
    /\ \A i \in DOMAIN log : IsShaderPath(log[i].path)
    /\ \A i \in DOMAIN errors : errors[i].kind = "CompileFail" => IsShaderPath(errors[i].path)
    /\ \A o \in outFiles : IsShaderPath(o.source)
    /\ Len(errors) <= Len(log)
    /\ (AtEnd /\ log = <<>> /\ runNo = 1) =>
          (status = "ok" /\ outFiles = {} /\ errors = <<>> /\ printed = <<>>)

C9_Witness ==
    /\ status = "ok"
    /\ runNo = 1
    /\ directories = << <<n_s, n_a>>, <<n_s, n_a>> >>
    /\ max_depth = 0
    /\ nYielded = 8
    /\ log = <<>> /\ outFiles = {} /\ errors = <<>>

\* C10: a second run on the unchanged tree with the same configuration,
\* after a run that returned normally, overwrites each prior output with
\* identical bytes: from its start to its return the output files and their
\* contents are those the first run left, no error is recorded and the
\* run does not fail.
C10_RerunIdempotent ==
    runNo >= 2 =>
        /\ status \in {"running", "ok"}
        /\ errors = <<>>
        /\ OnDisk(outFiles) = OnDisk(prevOut)

====
